---------------------------- MODULE Spec2Model ----------------------------
(***************************************************************************)
(* Module-coupling analysis of pycodemetrics:                              *)
(*   metrics/coupling.py           EnhancedImportAnalyzer, CouplingAnalyzer *)
(*   services/analyze_coupling.py  classification, recommendations, summary *)
(*                                                                         *)
(* Strings are sequences of character groups ("tokens").  The groups are   *)
(* ".", "/", "py", "__init__" and a few identifier atoms; no atom starts   *)
(* with "y" or is "p" alone, so a token sequence contains the substring    *)
(* ".py" (or "/__init__") exactly where the token sequence <<".","py">>    *)
(* (or <<"/","__init__">>) occurs, and str.endswith / str.startswith /     *)
(* str.replace / str.split on the characters coincide with the same        *)
(* operations on the tokens.                                               *)
(*                                                                         *)
(* Floats are exact rationals <<numerator, denominator>>, denominator > 0. *)
(* The quotients the program forms have small integer operands, for which  *)
(* IEEE division and the comparisons with 0.1 .. 0.8 agree with the exact  *)
(* rational comparisons.                                                   *)
(***************************************************************************)
EXTENDS Integers, Sequences, FiniteSets, TLC

VARIABLES
    fs,               \* the file system under project_root: path -> file or NoFile
    pc,               \* position of the running call
    python_files,     \* files found by rglob and not yet visited by the loop
    dependencies,     \* CouplingAnalyzer.dependencies (insertion-ordered dict)
    coupling_metrics, \* CouplingAnalyzer.coupling_metrics (insertion-ordered dict)
    project_metrics,  \* the ProjectCouplingMetrics returned by analyze_project
    settings,         \* CouplingAnalysisSettings of the service call
    calc_index,       \* position of the loop of _calculate_coupling_metrics
    result,           \* the CouplingAnalysisResult of the service call
    call,             \* arguments of a direct call of a helper
    ret,              \* value returned by that call
    project_path,     \* what the path given as project root names
    swallowed,        \* the except clause of analyze_project_coupling has run
    raised,           \* the exception the service call ended with, or None
    listing,          \* the order in which the directory lists its entries
    previous          \* the results of the earlier calls on the same file set

vars == <<fs, pc, python_files, dependencies, coupling_metrics, calc_index,
          project_metrics, settings, result, call, ret, project_path,
          swallowed, raised, listing, previous>>

None == "None"

-----------------------------------------------------------------------------
(* str helpers *)

StartsWith(s, p) ==
    /\ Len(p) <= Len(s)
    /\ SubSeq(s, 1, Len(p)) = p

EndsWith(s, p) ==
    /\ Len(p) <= Len(s)
    /\ SubSeq(s, Len(s) - Len(p) + 1, Len(s)) = p

\* str.replace(pat, rep): leftmost, non-overlapping occurrences
RECURSIVE Replace(_, _, _)
Replace(s, pat, rep) ==
    IF Len(s) < Len(pat) THEN s
    ELSE IF SubSeq(s, 1, Len(pat)) = pat
         THEN rep \o Replace(SubSeq(s, Len(pat) + 1, Len(s)), pat, rep)
         ELSE <<Head(s)>> \o Replace(Tail(s), pat, rep)

\* str.split(sep) for a one-character separator
RECURSIVE Split(_, _)
Split(s, sep) ==
    IF \E i \in 1..Len(s) : s[i] = sep
    THEN LET i == CHOOSE k \in 1..Len(s) :
                      s[k] = sep /\ \A j \in 1..(k - 1) : s[j] # sep
         IN <<SubSeq(s, 1, i - 1)>> \o Split(SubSeq(s, i + 1, Len(s)), sep)
    ELSE <<s>>

\* sep.join(parts)
RECURSIVE Join(_, _)
Join(parts, sep) ==
    IF Len(parts) = 0 THEN <<>>
    ELSE IF Len(parts) = 1 THEN parts[1]
    ELSE parts[1] \o sep \o Join(Tail(parts), sep)

Dot == <<".">>
Slash == <<"/">>
DotPy == <<".", "py">>
SlashInit == <<"/", "__init__">>

-----------------------------------------------------------------------------
(* CouplingAnalyzer._normalize_module_path *)

_normalize_module_path(module_path) ==
    LET p1 == IF EndsWith(module_path, DotPy)
              THEN SubSeq(module_path, 1, Len(module_path) - 2)  \* [:-3]
              ELSE module_path
        p2 == IF EndsWith(p1, SlashInit)
              THEN SubSeq(p1, 1, Len(p1) - 2)                    \* [:-9]
              ELSE p1
    IN Replace(p2, Slash, Dot)

(* CouplingAnalyzer._is_module_match *)

_is_module_match(imported_module, target_module) ==
    LET imported_normalized == _normalize_module_path(imported_module)
        target_normalized == _normalize_module_path(target_module)
        imported_parts == Split(imported_module, ".")
        target_parts ==
            Split(Replace(Replace(target_module, Slash, Dot), DotPy, <<>>), ".")
    IN IF imported_normalized = target_normalized THEN TRUE
       ELSE IF StartsWith(target_normalized, imported_normalized \o Dot) THEN TRUE
       ELSE IF StartsWith(imported_normalized, target_normalized \o Dot) THEN TRUE
       ELSE IF Len(imported_parts) >= 2 /\ Len(target_parts) >= 1
            THEN LET imported_suffix == Join(Tail(imported_parts), Dot)
                     target_suffix == Join(target_parts, Dot)
                 IN imported_suffix = target_suffix
            ELSE FALSE

-----------------------------------------------------------------------------
(* The analysed project: a directory named "proj" holding up to three      *)
(* Python files.  A file is readable and parses ("ok"), is readable but    *)
(* does not parse ("syntax_error"), cannot be read or decoded              *)
(* ("unreadable"), or is readable and nested so deeply that ast.parse or   *)
(* the visitor exceeds the recursion limit ("recursion_error").  The tree  *)
(* of a file is the list of its import nodes in source order, which is the *)
(* order ast.NodeVisitor visits them in.                                   *)

MaxStmts == 2

ProjectName == <<"proj">>          \* project_root.name

Path_a == <<"a", ".", "py">>
Path_b == <<"b", ".", "py">>
Path_pkg_init == <<"pkg", "/", "__init__", ".", "py">>

PathUniverse == {Path_a, Path_b, Path_pkg_init}

\* the value of a path that names no file
NoFile == [kind |-> "absent", tree |-> <<>>, loc |-> 0]

\* from a import f / import b / import proj.b / from . import b / from .b import f
StmtUniverse ==
    << [type |-> "ImportFrom", module |-> <<"a">>, level |-> 0, names |-> << <<"f">> >>],
       [type |-> "Import", module |-> <<>>, level |-> 0, names |-> << <<"b">> >>],
       [type |-> "Import", module |-> <<>>, level |-> 0,
        names |-> << <<"proj", ".", "b">> >>],
       [type |-> "ImportFrom", module |-> <<>>, level |-> 1, names |-> << <<"b">> >>],
       [type |-> "ImportFrom", module |-> <<"b">>, level |-> 1, names |-> << <<"f">> >>] >>

RECURSIVE PickStmts(_)
PickStmts(idxs) ==
    IF idxs = {} THEN <<>>
    ELSE LET m == CHOOSE i \in idxs : \A j \in idxs : i <= j
         IN <<StmtUniverse[m]>> \o PickStmts(idxs \ {m})

Trees ==
    {PickStmts(I) : I \in {J \in SUBSET (1..Len(StmtUniverse)) : Cardinality(J) <= MaxStmts}}

\* loc: the number of non-blank lines (one per import, one of other code)
FileContents ==
    {[kind |-> "ok", tree |-> t, loc |-> Len(t) + 1] : t \in Trees}
    \cup {[kind |-> "syntax_error", tree |-> <<>>, loc |-> 1],
          [kind |-> "unreadable", tree |-> <<>>, loc |-> 1],
          [kind |-> "recursion_error", tree |-> <<>>, loc |-> 1]}

\* Path.exists() for a path relative to project_root
Exists(fsys, path) == path \in PathUniverse /\ fsys[path] # NoFile

-----------------------------------------------------------------------------
(* EnhancedImportAnalyzer *)

\* EnhancedImportAnalyzer.__init__
NewImportAnalyzer ==
    [imports |-> <<>>, internal_imports |-> <<>>, external_imports |-> <<>>]

\* A mutation that decides by the project-root name only, without the file check.
CategorizeImportNoFileCheck(fsys, an, import_name) ==
    IF StartsWith(import_name, Dot)
    THEN [an EXCEPT !.internal_imports = Append(@, import_name)]
    ELSE IF StartsWith(import_name, ProjectName \o Dot) \/ import_name = ProjectName
    THEN [an EXCEPT !.internal_imports = Append(@, import_name)]
    ELSE [an EXCEPT !.external_imports = Append(@, import_name)]

_categorize_import(fsys, an, import_name) ==
    IF StartsWith(import_name, Dot)
    THEN [an EXCEPT !.internal_imports = Append(@, import_name)]
    ELSE IF StartsWith(import_name, ProjectName \o Dot) \/ import_name = ProjectName
    THEN [an EXCEPT !.internal_imports = Append(@, import_name)]
    ELSE LET potential_path == Replace(import_name, Dot, Slash)
         IN IF \/ Exists(fsys, potential_path \o DotPy)
               \/ Exists(fsys, potential_path \o Slash \o <<"__init__">> \o DotPy)
            THEN [an EXCEPT !.internal_imports = Append(@, import_name)]
            ELSE [an EXCEPT !.external_imports = Append(@, import_name)]

\* visit_Import: for alias in node.names
RECURSIVE visit_Import(_, _, _)
visit_Import(fsys, an, names) ==
    IF Len(names) = 0 THEN an
    ELSE visit_Import(
             fsys,
             _categorize_import(
                 fsys, [an EXCEPT !.imports = Append(@, Head(names))], Head(names)),
             Tail(names))

\* visit_ImportFrom, the loop over node.names
RECURSIVE visit_ImportFrom_names(_, _, _, _)
visit_ImportFrom_names(fsys, an, module, names) ==
    IF Len(names) = 0 THEN an
    ELSE visit_ImportFrom_names(
             fsys,
             _categorize_import(
                 fsys,
                 [an EXCEPT !.imports = Append(@, module \o Dot \o Head(names))],
                 module),
             module,
             Tail(names))

\* visit_ImportFrom: node.module is None for "from . import x" and carries
\* no leading dot for "from .m import x" (ast keeps the dots in node.level)
visit_ImportFrom(fsys, an, node) ==
    IF node.module # <<>>
    THEN visit_ImportFrom_names(
             fsys,
             _categorize_import(
                 fsys, [an EXCEPT !.imports = Append(@, node.module)], node.module),
             node.module,
             node.names)
    ELSE an

\* NodeVisitor.visit over the import nodes of the tree
RECURSIVE visit(_, _, _)
visit(fsys, an, tree) ==
    IF Len(tree) = 0 THEN an
    ELSE LET node == Head(tree)
             next == IF node.type = "Import"
                     THEN visit_Import(fsys, an, node.names)
                     ELSE visit_ImportFrom(fsys, an, node)
         IN visit(fsys, next, Tail(tree))

Range(s) == {s[i] : i \in 1..Len(s)}

\* get_dependency_info: list(set(...)) keeps the distinct names, in no
\* particular order; every later use is a length or a membership test
get_dependency_info(an, module_path, lines_of_code) ==
    [module_path |-> module_path,
     imported_modules |-> an.imports,
     internal_imports |-> Range(an.internal_imports),
     external_imports |-> Range(an.external_imports),
     lines_of_code |-> lines_of_code]

\* A mutation that loses the line count of a file that does not parse.
AnalyzeModuleDependenciesNoLines(fsys, module_path) ==
    LET file == fsys[module_path]
    IN IF file.kind = "syntax_error"
       THEN [module_path |-> module_path,
             imported_modules |-> <<>>,
             internal_imports |-> {},
             external_imports |-> {},
             lines_of_code |-> 0]
       ELSE get_dependency_info(
                visit(fsys, NewImportAnalyzer, file.tree), module_path, file.loc)

\* CouplingAnalyzer._analyze_module_dependencies
_analyze_module_dependencies(fsys, module_path) ==
    LET file == fsys[module_path]
    IN IF file.kind = "syntax_error"
       THEN [module_path |-> module_path,
             imported_modules |-> <<>>,
             internal_imports |-> {},
             external_imports |-> {},
             lines_of_code |-> file.loc]
       ELSE get_dependency_info(
                visit(fsys, NewImportAnalyzer, file.tree), module_path, file.loc)

-----------------------------------------------------------------------------
(* floats as exact rationals *)

RECURSIVE GCD(_, _)
GCD(a, b) == IF b = 0 THEN a ELSE GCD(b, a % b)

Abs(x) == IF x < 0 THEN -x ELSE x

\* canonical form: lowest terms, positive denominator
Rat(n, d) ==
    LET g == GCD(Abs(n), d)
    IN <<n \div g, d \div g>>

FromInt(n) == <<n, 1>>
RLt(x, y) == x[1] * y[2] < y[1] * x[2]
RGt(x, y) == RLt(y, x)
RGe(x, y) == ~RLt(x, y)
RLe(x, y) == ~RLt(y, x)
RAdd(x, y) == Rat(x[1] * y[2] + y[1] * x[2], x[2] * y[2])
RAbs(x) == <<Abs(x[1]), x[2]>>

Half == Rat(1, 2)                  \* the literal 0.5

-----------------------------------------------------------------------------
(* CouplingMetrics: computed fields *)

\* A mutation without abs().
DistanceWithoutAbs(m) ==
    RAdd(RAdd(m.abstractness, m.instability), FromInt(-1))

\* abs(abstractness + instability - 1)
distance_from_main_sequence(m) ==
    RAbs(RAdd(RAdd(m.abstractness, m.instability), FromInt(-1)))

\* A mutation with strict comparisons in the second test.
CategoryStrictUnstable(m) ==
    IF RLt(m.instability, Half) /\ RLt(m.abstractness, Half) THEN "stable"
    ELSE IF RGt(m.instability, Half) /\ RGt(m.abstractness, Half) THEN "unstable"
    ELSE IF RLt(m.instability, Half) /\ RGe(m.abstractness, Half) THEN "painful"
    ELSE "useless"

category(m) ==
    IF RLt(m.instability, Half) /\ RLt(m.abstractness, Half) THEN "stable"
    ELSE IF RGe(m.instability, Half) /\ RGe(m.abstractness, Half) THEN "unstable"
    ELSE IF RLt(m.instability, Half) /\ RGe(m.abstractness, Half) THEN "painful"
    ELSE "useless"

\* the field default abstractness: float = 0.0
\* A mutation of the default: every module fully abstract.
AbstractnessOne == FromInt(1)

DefaultAbstractness == FromInt(0)

\* A mutation dividing by module_count squared.
DependencyDensityOverSquare(pm) ==
    IF pm.module_count <= 1 THEN FromInt(0)
    ELSE Rat(pm.total_internal_dependencies, pm.module_count * pm.module_count)

(* ProjectCouplingMetrics.dependency_density *)
dependency_density(pm) ==
    IF pm.module_count <= 1 THEN FromInt(0)
    ELSE Rat(pm.total_internal_dependencies,
             pm.module_count * (pm.module_count - 1))

-----------------------------------------------------------------------------
(* CouplingAnalyzer *)

\* "pattern in str(path)"
IsSubstring(pat, s) ==
    \E i \in 1..(Len(s) - Len(pat) + 1) : SubSeq(s, i, i + Len(pat) - 1) = pat

\* _find_python_files: rglob("*.py") minus the excluded paths; the order of
\* the result is the directory order, which the program does not control
_find_python_files(fsys, exclude_patterns) ==
    {path \in PathUniverse :
        /\ fsys[path] # NoFile
        /\ EndsWith(path, DotPy)
        /\ ~\E pattern \in exclude_patterns : IsSubstring(pattern, path)}

\* dict[key] = value on an insertion-ordered dict keyed by module_path
DictSet(d, rec) ==
    IF \E i \in 1..Len(d) : d[i].module_path = rec.module_path
    THEN [i \in 1..Len(d) |->
             IF d[i].module_path = rec.module_path THEN rec ELSE d[i]]
    ELSE Append(d, rec)

\* A mutation of the reverse scan that also counts the module's own imports.
RECURSIVE AfferentCouplingCountingSelf(_, _, _)
AfferentCouplingCountingSelf(deps, i, target_module) ==
    IF i > Len(deps) THEN 0
    ELSE (IF \E imported \in deps[i].internal_imports :
                _is_module_match(_normalize_module_path(imported),
                                 _normalize_module_path(target_module))
          THEN 1 ELSE 0)
         + AfferentCouplingCountingSelf(deps, i + 1, target_module)

\* A mutation of the reverse scan that ends at the module's own record.
RECURSIVE AfferentCouplingStopAtSelf(_, _, _)
AfferentCouplingStopAtSelf(deps, i, target_module) ==
    IF i > Len(deps) THEN 0
    ELSE IF deps[i].module_path = target_module THEN 0
    ELSE (IF \E imported \in deps[i].internal_imports :
                _is_module_match(_normalize_module_path(imported),
                                 _normalize_module_path(target_module))
          THEN 1 ELSE 0)
         + AfferentCouplingStopAtSelf(deps, i + 1, target_module)

\* _calculate_afferent_coupling: the loop from entry i of the dict on
RECURSIVE _calculate_afferent_coupling(_, _, _)
_calculate_afferent_coupling(deps, i, target_module) ==
    IF i > Len(deps) THEN 0
    ELSE (IF deps[i].module_path = target_module THEN 0
          ELSE IF \E imported \in deps[i].internal_imports :
                     _is_module_match(_normalize_module_path(imported),
                                      _normalize_module_path(target_module))
               THEN 1 ELSE 0)
         + _calculate_afferent_coupling(deps, i + 1, target_module)

\* A mutation dividing by Ca alone.
CalculateInstabilityOverCa(afferent_coupling, efferent_coupling) ==
    IF afferent_coupling = 0 THEN FromInt(0)
    ELSE Rat(efferent_coupling, afferent_coupling)

_calculate_instability(afferent_coupling, efferent_coupling) ==
    LET total_coupling == afferent_coupling + efferent_coupling
    IN IF total_coupling = 0 THEN FromInt(0)
       ELSE Rat(efferent_coupling, total_coupling)

\* the body of the loop of _calculate_coupling_metrics for one module
ModuleCouplingMetrics(deps, dependency) ==
    LET efferent_coupling == Cardinality(dependency.internal_imports)
        afferent_coupling ==
            _calculate_afferent_coupling(deps, 1, dependency.module_path)
    IN [module_path |-> dependency.module_path,
        afferent_coupling |-> afferent_coupling,
        efferent_coupling |-> efferent_coupling,
        instability |-> _calculate_instability(afferent_coupling, efferent_coupling),
        abstractness |-> DefaultAbstractness,
        lines_of_code |-> dependency.lines_of_code]

RECURSIVE SumInt(_)
SumInt(s) == IF Len(s) = 0 THEN 0 ELSE Head(s) + SumInt(Tail(s))

RECURSIVE SumRat(_)
SumRat(s) == IF Len(s) = 0 THEN FromInt(0) ELSE RAdd(Head(s), SumRat(Tail(s)))

MaxOf(s) == CHOOSE x \in Range(s) : \A y \in Range(s) : y <= x

EmptyProjectMetrics ==
    [module_count |-> 0,
     total_internal_dependencies |-> 0,
     average_instability |-> FromInt(0),
     max_afferent_coupling |-> 0,
     max_efferent_coupling |-> 0,
     module_metrics |-> <<>>]

\* A mutation of the aggregation that takes both maxima from Ca.
ProjectMetricsMaxFromCa(deps, metrics) ==
    LET module_metrics == metrics
    IN IF Len(module_metrics) = 0 THEN EmptyProjectMetrics
       ELSE [module_count |-> Len(module_metrics),
             total_internal_dependencies |->
                 SumInt([i \in 1..Len(deps) |-> Cardinality(deps[i].internal_imports)]),
             average_instability |->
                 LET total == SumRat([i \in 1..Len(module_metrics) |->
                                         module_metrics[i].instability])
                 IN Rat(total[1], total[2] * Len(module_metrics)),
             max_afferent_coupling |->
                 MaxOf([i \in 1..Len(module_metrics) |->
                           module_metrics[i].afferent_coupling]),
             max_efferent_coupling |->
                 MaxOf([i \in 1..Len(module_metrics) |->
                           module_metrics[i].afferent_coupling]),
             module_metrics |-> module_metrics]

_calculate_project_metrics(deps, metrics) ==
    LET module_metrics == metrics
    IN IF Len(module_metrics) = 0 THEN EmptyProjectMetrics
       ELSE [module_count |-> Len(module_metrics),
             total_internal_dependencies |->
                 SumInt([i \in 1..Len(deps) |-> Cardinality(deps[i].internal_imports)]),
             average_instability |->
                 LET total == SumRat([i \in 1..Len(module_metrics) |->
                                         module_metrics[i].instability])
                 IN Rat(total[1], total[2] * Len(module_metrics)),
             max_afferent_coupling |->
                 MaxOf([i \in 1..Len(module_metrics) |->
                           module_metrics[i].afferent_coupling]),
             max_efferent_coupling |->
                 MaxOf([i \in 1..Len(module_metrics) |->
                           module_metrics[i].efferent_coupling]),
             module_metrics |-> module_metrics]

-----------------------------------------------------------------------------
(* services/analyze_coupling.py *)

DefaultCouplingThresholdHigh == 5
DefaultLinesThresholdLarge == 200

\* CouplingAnalysisSettings()
DefaultSettings ==
    [exclude_patterns |->
         {<<"__pycache__">>, <<".", "git">>, <<".", "pytest_cache">>,
          <<"node_modules">>, <<".", "venv">>, <<"venv">>, <<".", "mypy_cache">>,
          <<".", "tox">>, <<"build">>, <<"dist">>},
     instability_threshold_high |-> Rat(8, 10),
     instability_threshold_low |-> Rat(2, 10),
     coupling_threshold_high |-> DefaultCouplingThresholdHigh,
     lines_threshold_large |-> DefaultLinesThresholdLarge]

\* A mutation without the distance rule.
IsProblematicNoDistance(module, st) ==
    \/ RGt(module.instability, st.instability_threshold_high)
    \/ module.afferent_coupling > st.coupling_threshold_high
    \/ module.efferent_coupling > st.coupling_threshold_high
    \/ (module.lines_of_code > st.lines_threshold_large
        /\ module.efferent_coupling > 3)

\* A mutation that tests the coupling threshold on Ce only.
IsProblematicCeOnly(module, st) ==
    \/ RGt(module.instability, st.instability_threshold_high)
    \/ module.efferent_coupling > st.coupling_threshold_high
    \/ (module.lines_of_code > st.lines_threshold_large
        /\ module.efferent_coupling > 3)
    \/ RGt(distance_from_main_sequence(module), Half)

\* the flag is_problematic of one turn of the loop
\* A mutation without the test on file size.
IsProblematicNoSize(module, st) ==
    LET f1 == RGt(module.instability, st.instability_threshold_high)
        f2 == IF \/ module.afferent_coupling > st.coupling_threshold_high
                 \/ module.efferent_coupling > st.coupling_threshold_high
              THEN TRUE ELSE f1
        f4 == IF RGt(distance_from_main_sequence(module), Half)
              THEN TRUE ELSE f2
    IN f4

IsProblematic(module, st) ==
    LET f1 == RGt(module.instability, st.instability_threshold_high)
        f2 == IF \/ module.afferent_coupling > st.coupling_threshold_high
                 \/ module.efferent_coupling > st.coupling_threshold_high
              THEN TRUE ELSE f1
        f3 == IF /\ module.lines_of_code > st.lines_threshold_large
                 /\ module.efferent_coupling > 3
              THEN TRUE ELSE f2
        f4 == IF RGt(distance_from_main_sequence(module), Half)
              THEN TRUE ELSE f3
    IN f4

_identify_problematic_modules(modules, st) ==
    LET Test(module) == IsProblematic(module, st)
    IN SelectSeq(modules, Test)

\* A mutation without the test on Ca.
IdentifyStableModulesNoCa(modules, st) ==
    LET Test(module) ==
            /\ RLt(module.instability, st.instability_threshold_low)
            /\ module.efferent_coupling <= 3
    IN SelectSeq(modules, Test)

_identify_stable_modules(modules, st) ==
    LET Test(module) ==
            /\ RLt(module.instability, st.instability_threshold_low)
            /\ module.afferent_coupling >= 2
            /\ module.efferent_coupling <= 3
    IN SelectSeq(modules, Test)

_generate_instability_recommendations(module, st) ==
    IF module.efferent_coupling > st.coupling_threshold_high
    THEN [recommendations |-> <<"reduce", "inject", "split">>,
          priority |-> "high", category |-> "coupling",
          rationale |-> <<"efferent", module.efferent_coupling>>]
    ELSE [recommendations |-> <<"promote", "stabilize">>,
          priority |-> "medium", category |-> "instability",
          rationale |-> <<"instability", module.instability>>]

_generate_coupling_recommendations(module, st) ==
    [recommendations |-> <<"separate", "facade", "review">>,
     priority |-> IF module.efferent_coupling > 8 THEN "high" ELSE "medium",
     category |-> "coupling",
     rationale |-> <<"efferent", module.efferent_coupling>>]

_generate_size_recommendations(module, st) ==
    [recommendations |-> <<"split_file", "srp">>,
     priority |-> "medium", category |-> "size",
     rationale |-> <<"lines", module.lines_of_code>>]

_generate_distance_recommendations(module, st) ==
    IF category(module) = "painful"
    THEN [recommendations |-> <<"less_abstract", "concrete">>,
          priority |-> "medium", category |-> "dependency",
          rationale |-> <<"painful">>]
    ELSE [recommendations |-> <<"reconsider", "merge">>,
          priority |-> "low", category |-> "dependency",
          rationale |-> <<"useless">>]

\* A mutation testing the size rule before the coupling rule.
ModuleRecommendationSizeFirst(module, st) ==
    IF RGt(module.instability, st.instability_threshold_high)
    THEN _generate_instability_recommendations(module, st)
    ELSE IF /\ module.lines_of_code > st.lines_threshold_large
            /\ module.efferent_coupling > 3
    THEN _generate_size_recommendations(module, st)
    ELSE IF module.efferent_coupling > st.coupling_threshold_high
    THEN _generate_coupling_recommendations(module, st)
    ELSE IF /\ RGt(distance_from_main_sequence(module), Half)
            /\ category(module) \in {"painful", "useless"}
    THEN _generate_distance_recommendations(module, st)
    ELSE [recommendations |-> <<>>, priority |-> "low", category |-> "general",
          rationale |-> <<>>]

\* one turn of the loop of _generate_recommendations: the four values after
\* the if/elif chain
\* A mutation whose distance rule starts at 0.5 instead of above it.
ModuleRecommendationDistanceFromHalf(module, st) ==
    IF RGt(module.instability, st.instability_threshold_high)
    THEN _generate_instability_recommendations(module, st)
    ELSE IF module.efferent_coupling > st.coupling_threshold_high
    THEN _generate_coupling_recommendations(module, st)
    ELSE IF /\ module.lines_of_code > st.lines_threshold_large
            /\ module.efferent_coupling > 3
    THEN _generate_size_recommendations(module, st)
    ELSE IF /\ RGe(distance_from_main_sequence(module), Half)
            /\ category(module) \in {"painful", "useless"}
    THEN _generate_distance_recommendations(module, st)
    ELSE [recommendations |-> <<>>, priority |-> "low", category |-> "general",
          rationale |-> <<>>]

ModuleRecommendation(module, st) ==
    IF RGt(module.instability, st.instability_threshold_high)
    THEN _generate_instability_recommendations(module, st)
    ELSE IF module.efferent_coupling > st.coupling_threshold_high
    THEN _generate_coupling_recommendations(module, st)
    ELSE IF /\ module.lines_of_code > st.lines_threshold_large
            /\ module.efferent_coupling > 3
    THEN _generate_size_recommendations(module, st)
    ELSE IF /\ RGt(distance_from_main_sequence(module), Half)
            /\ category(module) \in {"painful", "useless"}
    THEN _generate_distance_recommendations(module, st)
    ELSE [recommendations |-> <<>>, priority |-> "low", category |-> "general",
          rationale |-> <<>>]

\* priority_order.get(x.priority, 3)
PriorityOrder(priority) ==
    CASE priority = "high" -> 0
      [] priority = "medium" -> 1
      [] priority = "low" -> 2
      [] OTHER -> 3

\* A mutation of the sort that reverses the elements of equal key.
SortByPriorityTiesReversed(recs) ==
    LET K0(r) == PriorityOrder(r.priority) = 0
        K1(r) == PriorityOrder(r.priority) = 1
        K2(r) == PriorityOrder(r.priority) = 2
        K3(r) == PriorityOrder(r.priority) = 3
        Rev(q) == [i \in 1..Len(q) |-> q[Len(q) + 1 - i]]
    IN Rev(SelectSeq(recs, K0)) \o Rev(SelectSeq(recs, K1))
       \o Rev(SelectSeq(recs, K2)) \o Rev(SelectSeq(recs, K3))

\* list.sort(key=...) is stable: the elements of each key in their old order
SortByPriority(recs) ==
    LET K0(r) == PriorityOrder(r.priority) = 0
        K1(r) == PriorityOrder(r.priority) = 1
        K2(r) == PriorityOrder(r.priority) = 2
        K3(r) == PriorityOrder(r.priority) = 3
    IN SelectSeq(recs, K0) \o SelectSeq(recs, K1)
       \o SelectSeq(recs, K2) \o SelectSeq(recs, K3)

_generate_recommendations(modules, st) ==
    LET all == [i \in 1..Len(modules) |->
                   [module_path |-> modules[i].module_path]
                   @@ ModuleRecommendation(modules[i], st)]
        NonEmpty(r) == Len(r.recommendations) > 0
    IN SortByPriority(SelectSeq(all, NonEmpty))

\* A mutation rating "poor" from the ratio 0.3 on.
AnalysisSummaryPoorFromThreshold(pm, problematic_modules, stable_modules) ==
    LET total_modules == pm.module_count
        problematic_count == Len(problematic_modules)
        stable_count == Len(stable_modules)
        overall_health ==
            IF total_modules = 0 THEN "unknown"
            ELSE IF RGe(Rat(problematic_count, total_modules), Rat(3, 10)) THEN "poor"
            ELSE IF RGt(Rat(problematic_count, total_modules), Rat(1, 10)) THEN "fair"
            ELSE IF RGt(Rat(stable_count, total_modules), Rat(2, 10)) THEN "good"
            ELSE "excellent"
    IN [total_modules |-> total_modules,
        problematic_modules |-> problematic_count,
        stable_modules |-> stable_count,
        overall_health |-> overall_health,
        category_distribution |->
            [c \in {category(pm.module_metrics[i]) : i \in 1..Len(pm.module_metrics)} |->
                Cardinality({i \in 1..Len(pm.module_metrics) :
                                category(pm.module_metrics[i]) = c})],
        max_couplings |-> [afferent |-> pm.max_afferent_coupling,
                           efferent |-> pm.max_efferent_coupling]]

\* _generate_analysis_summary (the rounded display figures are left out)
_generate_analysis_summary(pm, problematic_modules, stable_modules) ==
    LET total_modules == pm.module_count
        problematic_count == Len(problematic_modules)
        stable_count == Len(stable_modules)
        overall_health ==
            IF total_modules = 0 THEN "unknown"
            ELSE IF RGt(Rat(problematic_count, total_modules), Rat(3, 10)) THEN "poor"
            ELSE IF RGt(Rat(problematic_count, total_modules), Rat(1, 10)) THEN "fair"
            ELSE IF RGt(Rat(stable_count, total_modules), Rat(2, 10)) THEN "good"
            ELSE "excellent"
    IN [total_modules |-> total_modules,
        problematic_modules |-> problematic_count,
        stable_modules |-> stable_count,
        overall_health |-> overall_health,
        category_distribution |->
            [c \in {category(pm.module_metrics[i]) : i \in 1..Len(pm.module_metrics)} |->
                Cardinality({i \in 1..Len(pm.module_metrics) :
                                category(pm.module_metrics[i]) = c})],
        max_couplings |-> [afferent |-> pm.max_afferent_coupling,
                           efferent |-> pm.max_efferent_coupling]]

_create_empty_result(pm) ==
    [project_metrics |-> pm,
     problematic_modules |-> <<>>,
     stable_modules |-> <<>>,
     recommendations |-> <<>>,
     analysis_summary |-> [total_modules |-> 0,
                           problematic_modules |-> 0,
                           stable_modules |-> 0,
                           recommendations |-> 0,
                           overall_health |-> "unknown"]]

\* analyze_project_coupling_comprehensive, from the returned project metrics on
ComprehensiveResult(pm, st) ==
    IF pm.module_count = 0 THEN _create_empty_result(pm)
    ELSE LET problematic_modules == _identify_problematic_modules(pm.module_metrics, st)
             stable_modules == _identify_stable_modules(pm.module_metrics, st)
         IN [project_metrics |-> pm,
             problematic_modules |-> problematic_modules,
             stable_modules |-> stable_modules,
             recommendations |-> _generate_recommendations(pm.module_metrics, st),
             analysis_summary |->
                 _generate_analysis_summary(pm, problematic_modules, stable_modules)]

-----------------------------------------------------------------------------
(* The service call analyze_project_coupling_comprehensive(project_root)    *)
(* on a project directory, step by step.                                   *)

\* the exception classes the analysis can raise; all derive from Exception
ExceptionClasses ==
    {"SyntaxError", "UnicodeDecodeError", "IOError", "RecursionError",
     "ValueError", "RuntimeError"}

\* A mutation catching ValueError only.
ExceptValueError(exception) == exception = "ValueError"

\* "except Exception": the clause of analyze_project_coupling and of
\* analyze_project_coupling_comprehensive
ExceptException(exception) == exception \in ExceptionClasses

\* the value built in the except clause of analyze_project_coupling
FailedProjectMetrics ==
    [module_count |-> 0,
     total_internal_dependencies |-> 0,
     average_instability |-> FromInt(0),
     max_afferent_coupling |-> 0,
     max_efferent_coupling |-> 0,
     module_metrics |-> <<>>]

ProjectPathKinds == {"directory", "file", "missing"}

\* A mutation testing exists() only.
InvalidProjectPathNotExists(path_kind) == path_kind = "missing"

\* not project_path.exists() or not project_path.is_dir()
InvalidProjectPath(path_kind) ==
    path_kind = "missing" \/ path_kind # "directory"

Init ==
    /\ project_path \in ProjectPathKinds
    /\ fs \in IF project_path = "directory"
              THEN [PathUniverse -> FileContents \cup {NoFile}]
              ELSE {[path \in PathUniverse |-> NoFile]}
    /\ swallowed = FALSE
    /\ raised = None
    /\ pc = "start"
    /\ python_files = {}
    /\ dependencies = <<>>
    /\ coupling_metrics = <<>>
    /\ calc_index = 0
    /\ project_metrics = None
    /\ settings = DefaultSettings
    /\ result = None
    /\ call = None
    /\ ret = None
    /\ listing = <<>>
    /\ previous = <<>>

AfterCollect(deps) == IF Len(deps) = 0 THEN "aggregate" ELSE "calculate"

\* the validation of the project root fails: raise ValueError
RejectProjectPath ==
    /\ pc = "start"
    /\ InvalidProjectPath(project_path)
    /\ pc' = "raised"
    /\ raised' = "ValueError"
    /\ UNCHANGED <<listing, previous>>
    /\ UNCHANGED <<fs, python_files, dependencies, coupling_metrics, calc_index,
                   project_metrics, settings, result, call, ret, project_path,
                   swallowed>>

\* the call up to the loop of _collect_all_dependencies: settings defaulted,
\* the root validated, CouplingAnalyzer constructed, the files enumerated
Begin ==
    /\ pc = "start"
    /\ ~InvalidProjectPath(project_path)
    /\ dependencies' = <<>>
    /\ coupling_metrics' = <<>>
    /\ python_files' = _find_python_files(fs, settings.exclude_patterns)
    /\ pc' = IF python_files' = {} THEN AfterCollect(dependencies') ELSE "collect"
    /\ calc_index' = 1
    /\ UNCHANGED <<listing, previous>>
    /\ UNCHANGED <<fs, project_metrics, settings, result, call, ret, project_path,
                   swallowed, raised>>

\* one turn of the loop of _collect_all_dependencies
CollectFile(python_file) ==
    /\ pc = "collect"
    /\ python_file \in python_files
    /\ IF fs[python_file].kind = "recursion_error"
       THEN \* neither except clause of the two inner functions takes the
            \* exception: the analyzer is abandoned
            /\ python_files' = {}
            /\ dependencies' = <<>>
            /\ IF ExceptException("RecursionError")
               THEN /\ project_metrics' = FailedProjectMetrics
                    /\ swallowed' = TRUE
                    /\ pc' = "classify"
                    /\ UNCHANGED raised
               ELSE /\ pc' = "raised"
                    /\ raised' = "RecursionError"
                    /\ UNCHANGED <<project_metrics, swallowed>>
       ELSE /\ python_files' = python_files \ {python_file}
            /\ dependencies' =
                   IF fs[python_file].kind = "unreadable"
                   THEN dependencies               \* except ...: continue
                   ELSE DictSet(dependencies,
                                _analyze_module_dependencies(fs, python_file))
            /\ pc' = IF python_files' = {} THEN AfterCollect(dependencies')
                     ELSE "collect"
            /\ UNCHANGED <<project_metrics, swallowed, raised>>
    /\ UNCHANGED <<listing, previous>>
    /\ UNCHANGED <<fs, coupling_metrics, calc_index, settings, result, call, ret,
                   project_path>>

\* A mutation of the calculation step that drops the record it has just
\* read from the store.
CalculateModuleConsumingStore ==
    /\ pc = "calculate"
    /\ calc_index <= Len(dependencies)
    /\ coupling_metrics' =
           DictSet(coupling_metrics,
                   ModuleCouplingMetrics(dependencies, dependencies[calc_index]))
    /\ dependencies' = Tail(dependencies)
    /\ calc_index' = calc_index
    /\ pc' = IF Len(dependencies') = 0 THEN "aggregate" ELSE "calculate"
    /\ UNCHANGED <<listing, previous>>
    /\ UNCHANGED <<fs, python_files, project_metrics, settings,
                   result, call, ret, project_path, swallowed, raised>>

\* one turn of the loop of _calculate_coupling_metrics
CalculateModule ==
    /\ pc = "calculate"
    /\ calc_index <= Len(dependencies)
    /\ coupling_metrics' =
           DictSet(coupling_metrics,
                   ModuleCouplingMetrics(dependencies, dependencies[calc_index]))
    /\ calc_index' = calc_index + 1
    /\ pc' = IF calc_index' > Len(dependencies) THEN "aggregate" ELSE "calculate"
    /\ UNCHANGED <<listing, previous>>
    /\ UNCHANGED <<fs, python_files, dependencies, project_metrics, settings,
                   result, call, ret, project_path, swallowed, raised>>

\* _calculate_project_metrics; analyze_project and analyze_project_coupling return
Aggregate ==
    /\ pc = "aggregate"
    /\ project_metrics' = _calculate_project_metrics(dependencies, coupling_metrics)
    /\ pc' = "classify"
    /\ UNCHANGED <<listing, previous>>
    /\ UNCHANGED <<fs, python_files, dependencies, coupling_metrics, calc_index,
                   settings, result, call, ret, project_path, swallowed, raised>>

\* the rest of analyze_project_coupling_comprehensive
Classify ==
    /\ pc = "classify"
    /\ result' = ComprehensiveResult(project_metrics, settings)
    /\ pc' = "done"
    /\ UNCHANGED <<listing, previous>>
    /\ UNCHANGED <<fs, python_files, dependencies, coupling_metrics, calc_index,
                   project_metrics, settings, call, ret, project_path, swallowed, raised>>

Next ==
    \/ RejectProjectPath
    \/ Begin
    \/ \E python_file \in PathUniverse : CollectFile(python_file)
    \/ CalculateModule
    \/ Aggregate
    \/ Classify

Spec == Init /\ [][Next]_vars

-----------------------------------------------------------------------------
(* Properties of the service call (specification Spec) *)

Returned == pc = "done"
HasProjectMetrics == pc \in {"classify", "done"}

InSeq(x, s) == \E i \in 1..Len(s) : s[i] = x

\* some internal import of dependency d matches the module target_path
Imports(d, target_path) ==
    \E imported \in d.internal_imports :
        _is_module_match(_normalize_module_path(imported),
                         _normalize_module_path(target_path))

\* the records of the store, other than M's, that import M
Importers(module_path) ==
    {i \in 1..Len(dependencies) :
        /\ dependencies[i].module_path # module_path
        /\ Imports(dependencies[i], module_path)}

\* the record of the store is isolated: it has no internal import and no
\* other record imports it
Isolated(d) == d.internal_imports = {} /\ Importers(d.module_path) = {}

MetricOf(module_path) ==
    CHOOSE m \in Range(result.project_metrics.module_metrics) :
        m.module_path = module_path

\* C1 as stated: an isolated module gets I = 0 and category "stable", is not
\* in the problematic set and is not in the stable-module set.
C1_IsolatedNotProblematic ==
    Returned =>
        \A i \in 1..Len(dependencies) :
            Isolated(dependencies[i]) =>
                LET m == MetricOf(dependencies[i].module_path)
                IN /\ m.instability = FromInt(0)
                   /\ category(m) = "stable"
                   /\ ~InSeq(m, result.problematic_modules)
                   /\ ~InSeq(m, result.stable_modules)

\* C1 amended: an isolated module gets I = 0 and category "stable", is not in
\* the stable-module set, and IS in the problematic set (its distance from
\* the main sequence is 1 > 0.5).
C1_IsolatedIsProblematic ==
    Returned =>
        \A i \in 1..Len(dependencies) :
            Isolated(dependencies[i]) =>
                LET m == MetricOf(dependencies[i].module_path)
                IN /\ m.instability = FromInt(0)
                   /\ category(m) = "stable"
                   /\ distance_from_main_sequence(m) = FromInt(1)
                   /\ InSeq(m, result.problematic_modules)
                   /\ ~InSeq(m, result.stable_modules)

C1_Witness ==
    /\ Returned
    /\ Len(dependencies) >= 2
    /\ \E i \in 1..Len(dependencies) : Isolated(dependencies[i])
    /\ \E i \in 1..Len(dependencies) : ~Isolated(dependencies[i])

\* C2: dependency_density lies in [0,1] when module_count > 1 and is 0 when
\* module_count <= 1.
C2_DensityInUnitInterval ==
    HasProjectMetrics =>
        LET density == dependency_density(project_metrics)
        IN IF project_metrics.module_count > 1
           THEN RGe(density, FromInt(0)) /\ RLe(density, FromInt(1))
           ELSE density = FromInt(0)

\* C3: Ce(M) is the number of other modules of the store that M depends on,
\* that is the number of modules N # M for which M is counted in Ca(N).
C3_CeCountsModules ==
    \A k \in 1..Len(coupling_metrics) :
        LET m == coupling_metrics[k]
            d == CHOOSE x \in Range(dependencies) : x.module_path = m.module_path
        IN m.efferent_coupling =
               Cardinality({i \in 1..Len(dependencies) :
                               /\ dependencies[i].module_path # m.module_path
                               /\ Imports(d, dependencies[i].module_path)})

\* C4: Ca(M) is the number of modules N # M of the store with at least one
\* internal import matching M; an importer counts once, M's own imports
\* never, and 0 <= Ca(M) <= module_count - 1.
C4_CaCountsImporters ==
    \A k \in 1..Len(coupling_metrics) :
        LET m == coupling_metrics[k]
        IN /\ m.afferent_coupling = Cardinality(Importers(m.module_path))
           /\ 0 <= m.afferent_coupling
           /\ m.afferent_coupling <= Len(dependencies) - 1

\* a module imported by two others, one of them under two names, and a
\* module with an import that matches itself
C4_Witness ==
    /\ Returned
    /\ \E k \in 1..Len(coupling_metrics) :
           /\ coupling_metrics[k].afferent_coupling = 2
           /\ \E i \in Importers(coupling_metrics[k].module_path) :
                  Cardinality({imported \in dependencies[i].internal_imports :
                      _is_module_match(
                          _normalize_module_path(imported),
                          _normalize_module_path(coupling_metrics[k].module_path))}) = 2
    /\ \E i \in 1..Len(dependencies) :
           Imports(dependencies[i], dependencies[i].module_path)

RECURSIVE Dots(_)
Dots(level) == IF level = 0 THEN <<>> ELSE Dot \o Dots(level - 1)

\* the names under which a relative import node could have been recorded
RelativeNames(node) ==
    IF node.module # <<>>
    THEN {node.module, Dots(node.level) \o node.module}
    ELSE {Dots(node.level)}
         \cup {node.names[j] : j \in 1..Len(node.names)}
         \cup {Dots(node.level) \o node.names[j] : j \in 1..Len(node.names)}

\* C6: every import written with relative-import syntax is recorded by the
\* extractor and classified as internal.
C6_RelativeImportsInternal ==
    \A i \in 1..Len(dependencies) :
        LET d == dependencies[i]
            file == fs[d.module_path]
        IN file.kind = "ok" =>
               \A k \in 1..Len(file.tree) :
                   (file.tree[k].type = "ImportFrom" /\ file.tree[k].level >= 1) =>
                       \E name \in RelativeNames(file.tree[k]) :
                           /\ InSeq(name, d.imported_modules)
                           /\ name \in d.internal_imports

\* the module names of the absolute imports of a tree
AbsoluteNames(tree) ==
    UNION {IF tree[k].type = "Import" THEN Range(tree[k].names)
           ELSE IF tree[k].level = 0 /\ tree[k].module # <<>> THEN {tree[k].module}
           ELSE {} : k \in 1..Len(tree)}

NamesProjectRoot(name) ==
    name = ProjectName \/ StartsWith(name, ProjectName \o Dot)

NamesFileOrPackage(name) ==
    LET as_path == Replace(name, Dot, Slash)
    IN \/ (as_path \o DotPy) \in PathUniverse /\ fs[as_path \o DotPy].kind # "absent"
       \/ /\ (as_path \o <<"/", "__init__", ".", "py">>) \in PathUniverse
          /\ fs[as_path \o <<"/", "__init__", ".", "py">>].kind # "absent"

\* C7: every absolute imported module name is in exactly one of
\* internal_imports / external_imports: internal if it is the project root
\* name or starts with "<root>.", else internal if it names an existing .py
\* file or a directory with __init__.py under the root, otherwise external.
C7_AbsoluteImportClassified ==
    \A i \in 1..Len(dependencies) :
        LET d == dependencies[i]
            file == fs[d.module_path]
        IN file.kind = "ok" =>
               \A name \in AbsoluteNames(file.tree) :
                   LET internal == NamesProjectRoot(name) \/ NamesFileOrPackage(name)
                   IN /\ (name \in d.internal_imports) <=> internal
                      /\ (name \in d.external_imports) <=> ~internal

\* one record holds a name internal by the root rule only and a name internal
\* by the file rule only, and some record holds an external absolute name
C7_Witness ==
    /\ \E i \in 1..Len(dependencies) :
           LET names == AbsoluteNames(fs[dependencies[i].module_path].tree)
           IN /\ \E name \in names : NamesProjectRoot(name) /\ ~NamesFileOrPackage(name)
              /\ \E name \in names : ~NamesProjectRoot(name) /\ NamesFileOrPackage(name)
              /\ names \subseteq dependencies[i].internal_imports
    /\ \E i \in 1..Len(dependencies) :
           \E name \in AbsoluteNames(fs[dependencies[i].module_path].tree) :
               name \in dependencies[i].external_imports

\* C8: for every module metric 0 <= I <= 1, I = Ce/(Ca+Ce) when Ca+Ce > 0,
\* and I = 0 when Ca+Ce = 0.
C8_InstabilityFormula ==
    \A k \in 1..Len(coupling_metrics) :
        LET m == coupling_metrics[k]
            total == m.afferent_coupling + m.efferent_coupling
        IN /\ RGe(m.instability, FromInt(0))
           /\ RLe(m.instability, FromInt(1))
           /\ total > 0 => m.instability[1] * total = m.efferent_coupling * m.instability[2]
           /\ total = 0 => m.instability = FromInt(0)

\* a metric with Ca + Ce = 0 beside one with 0 < I < 1 other than 1/2
C8_Witness ==
    /\ \E k \in 1..Len(coupling_metrics) :
           coupling_metrics[k].afferent_coupling + coupling_metrics[k].efferent_coupling = 0
    /\ \E k \in 1..Len(coupling_metrics) :
           /\ RGt(coupling_metrics[k].instability, FromInt(0))
           /\ RLt(coupling_metrics[k].instability, FromInt(1))
           /\ coupling_metrics[k].instability # Half

\* the store holds exactly two modules, each with one internal import, which
\* names the other module
MutualImport ==
    /\ Len(dependencies) = 2
    /\ Cardinality(dependencies[1].internal_imports) = 1
    /\ Cardinality(dependencies[2].internal_imports) = 1
    /\ Imports(dependencies[1], dependencies[2].module_path)
    /\ Imports(dependencies[2], dependencies[1].module_path)

\* C9: for two modules that import each other and nothing else internal the
\* analysis yields module_count = 2, Ca = Ce = 1 and I = 0.5 for both,
\* total_internal_dependencies = 2 and dependency_density = 1.0.
C9_MutualImportScenario ==
    (HasProjectMetrics /\ MutualImport) =>
        /\ project_metrics.module_count = 2
        /\ \A k \in 1..Len(project_metrics.module_metrics) :
               /\ project_metrics.module_metrics[k].afferent_coupling = 1
               /\ project_metrics.module_metrics[k].efferent_coupling = 1
               /\ project_metrics.module_metrics[k].instability = Half
        /\ Len(project_metrics.module_metrics) = 2
        /\ project_metrics.total_internal_dependencies = 2
        /\ dependency_density(project_metrics) = FromInt(1)

C9_Witness == Returned /\ MutualImport

\* C12 as stated: in every result no module appears both in
\* problematic_modules and in stable_modules.
C12_ProblematicStableDisjoint ==
    Returned =>
        \A i \in 1..Len(result.stable_modules) :
            ~InSeq(result.stable_modules[i], result.problematic_modules)

\* C12 amended: the two lists are built independently and overlap; in every
\* result of a project analysis under the default settings each module of
\* stable_modules is also in problematic_modules (abstractness is 0 and
\* I < 0.2, so the distance from the main sequence is above 0.5).
C12_StableAreProblematic ==
    Returned =>
        \A i \in 1..Len(result.stable_modules) :
            /\ InSeq(result.stable_modules[i], result.problematic_modules)
            /\ InSeq(result.stable_modules[i], result.project_metrics.module_metrics)
            /\ RGt(distance_from_main_sequence(result.stable_modules[i]), Half)

\* a project with a module in the stable-module set and a module in neither
\* list
C12_Witness ==
    /\ Returned
    /\ Len(result.stable_modules) >= 1
    /\ \E k \in 1..Len(result.project_metrics.module_metrics) :
           /\ ~InSeq(result.project_metrics.module_metrics[k], result.stable_modules)
           /\ ~InSeq(result.project_metrics.module_metrics[k],
                     result.problematic_modules)

\* the call ended with an exception, or analyze_project_coupling gave up
Aborted == pc = "raised" \/ swallowed

\* the file system with the file at path replaced by one that parses and
\* has the same lines, none of them an import
C17_AsIfParsed(path) ==
    [fs EXCEPT ![path] = [kind |-> "ok", tree |-> <<>>, loc |-> fs[path].loc]]

\* C17: a file with a syntax error never aborts the run; it yields a record
\* with empty imported, internal and external import lists and its own line
\* count, is counted in module_count, has Ce = 0 and is counted in no other
\* module's Ca; all other files are analysed as if it parsed.
C17_SyntaxErrorTolerated ==
    /\ Aborted =>
           \/ project_path # "directory"
           \/ \E path \in PathUniverse : fs[path].kind = "recursion_error"
    /\ (HasProjectMetrics /\ ~Aborted) =>
           \A path \in {q \in PathUniverse : fs[q].kind = "syntax_error"} :
               /\ \E i \in 1..Len(dependencies) :
                      dependencies[i] = [module_path |-> path,
                                         imported_modules |-> <<>>,
                                         internal_imports |-> {},
                                         external_imports |-> {},
                                         lines_of_code |-> fs[path].loc]
               /\ project_metrics.module_count
                      = Cardinality({q \in PathUniverse :
                                        fs[q].kind \in {"ok", "syntax_error"}})
               /\ \E k \in 1..Len(project_metrics.module_metrics) :
                      /\ project_metrics.module_metrics[k].module_path = path
                      /\ project_metrics.module_metrics[k].efferent_coupling = 0
               /\ \A k \in 1..Len(project_metrics.module_metrics) :
                      LET m == project_metrics.module_metrics[k]
                      IN m.module_path # path =>
                             m.afferent_coupling
                                 = Cardinality({i \in Importers(m.module_path) :
                                                   dependencies[i].module_path # path})
               /\ \A i \in 1..Len(dependencies) :
                      dependencies[i].module_path # path =>
                          dependencies[i]
                              = _analyze_module_dependencies(
                                    C17_AsIfParsed(path), dependencies[i].module_path)

\* a returned analysis of three files: one with a syntax error, one that
\* imports it, and one that imports the importer
C17_Witness ==
    /\ Returned
    /\ ~Aborted
    /\ Len(dependencies) = 3
    /\ \E i, j, k \in 1..Len(dependencies) :
           /\ fs[dependencies[i].module_path].kind = "syntax_error"
           /\ fs[dependencies[j].module_path].kind = "ok"
           /\ fs[dependencies[k].module_path].kind = "ok"
           /\ j # k
           /\ Imports(dependencies[j], dependencies[i].module_path)
           /\ Imports(dependencies[k], dependencies[j].module_path)

\* the file system without the file at path
C18_Without(path) == [fs EXCEPT ![path] = NoFile]

\* the unreadable file at path is absent from the store and the metrics,
\* module_count does not count it, it is an importer in no Ca, and every
\* other file found has its record
C18_Skipped(path) ==
    /\ \A i \in 1..Len(dependencies) : dependencies[i].module_path # path
    /\ \A k \in 1..Len(project_metrics.module_metrics) :
           /\ project_metrics.module_metrics[k].module_path # path
           /\ project_metrics.module_metrics[k].afferent_coupling
                  = Cardinality(Importers(project_metrics.module_metrics[k].module_path))
    /\ project_metrics.module_count
           = Cardinality({q \in PathUniverse : fs[q].kind \in {"ok", "syntax_error"}})
    /\ \A q \in PathUniverse :
           fs[q].kind \in {"ok", "syntax_error"} =>
               \E i \in 1..Len(dependencies) : dependencies[i].module_path = q

\* no Ce counts the unreadable file at path: every Ce is what it is in the
\* project without the file
C18_InNoCe(path) ==
    \A k \in 1..Len(project_metrics.module_metrics) :
        LET m == project_metrics.module_metrics[k]
        IN m.efferent_coupling
               = Cardinality(_analyze_module_dependencies(
                                 C18_Without(path), m.module_path).internal_imports)

\* C18: a file whose read fails with an I/O or decoding error is skipped:
\* it is absent from the store, not counted in module_count, contributes to
\* no Ca or Ce, and every other enumerated file is still processed.
C18_UnreadableSkipped ==
    (HasProjectMetrics /\ ~Aborted) =>
        \A path \in {q \in PathUniverse : fs[q].kind = "unreadable"} :
            C18_Skipped(path) /\ C18_InNoCe(path)

\* the part of C18 that leaves out the Ce of the modules importing the file
C18_UnreadableSkippedButImported ==
    (HasProjectMetrics /\ ~Aborted) =>
        \A path \in {q \in PathUniverse : fs[q].kind = "unreadable"} :
            C18_Skipped(path)

\* C19: when the project root does not exist or is not a directory the
\* service call fails with ValueError at once: no file is enumerated or
\* analysed, nothing is computed and no result is returned.
C19_InvalidRootRejected ==
    project_path # "directory" =>
        /\ pc \in {"start", "raised"}
        /\ pc = "start" => raised = "None"
        /\ pc = "raised" => raised = "ValueError"
        /\ python_files = {}
        /\ dependencies = <<>>
        /\ coupling_metrics = <<>>
        /\ ~swallowed

\* the root names a regular file and the call has raised
C19_Witness ==
    /\ project_path = "file"
    /\ pc = "raised"
    /\ raised = "ValueError"

\* C20: analyze_project_coupling never propagates an exception: when one is
\* raised while the analyzer is built or runs, the function returns a
\* project metric with module_count 0, total_internal_dependencies 0,
\* average_instability 0.0, both maxima 0 and no module metrics.  The only
\* exception the service call ends with is the ValueError of the validation,
\* raised before analyze_project_coupling is called.
C20_ExceptionSwallowed ==
    /\ pc = "raised" => (raised = "ValueError" /\ project_path # "directory")
    /\ (HasProjectMetrics /\ \E path \in PathUniverse :
                                 fs[path].kind = "recursion_error") => swallowed
    /\ swallowed =>
           /\ HasProjectMetrics
           /\ raised = "None"
           /\ project_metrics = [module_count |-> 0,
                                 total_internal_dependencies |-> 0,
                                 average_instability |-> <<0, 1>>,
                                 max_afferent_coupling |-> 0,
                                 max_efferent_coupling |-> 0,
                                 module_metrics |-> <<>>]

\* a project with a file that imports another and a file whose analysis
\* raises RecursionError: the call has returned the zeroed metric
C20_Witness ==
    /\ Returned
    /\ swallowed
    /\ result.project_metrics.module_count = 0
    /\ \E path \in PathUniverse : fs[path].kind = "ok" /\ Len(fs[path].tree) >= 1

\* C21: when an error occurs in a stage of the analysis of a valid project
\* root, the service call raises RuntimeError and returns no result: a call
\* in which an exception was raised never returns, and a call on a valid
\* root that ends with an exception ends with RuntimeError.
C21_ErrorRaisesRuntimeError ==
    /\ Returned => ~swallowed
    /\ (pc = "raised" /\ project_path = "directory") => raised = "RuntimeError"

\* the files of the project in one fixed order
C23_FixedOrder == <<Path_a, Path_b, Path_pkg_init>>

\* the store of a run that visits the files in the fixed order
C23_Store ==
    LET Analysed(path) == fs[path].kind \in {"ok", "syntax_error"}
        paths == SelectSeq(C23_FixedOrder, Analysed)
    IN [i \in 1..Len(paths) |-> _analyze_module_dependencies(fs, paths[i])]

\* the module metrics computed from a store
C23_Metrics(store) ==
    [i \in 1..Len(store) |-> ModuleCouplingMetrics(store, store[i])]

\* C23: the order in which the files are enumerated does not affect the
\* result: whatever the order, the final store, every module's Ca, Ce, I
\* and category, module_count, total_internal_dependencies, both maxima and
\* the members of the problematic and stable sets are those of the run that
\* visits the files in the fixed order; only list order differs.
C23_OrderIndependent ==
    /\ HasProjectMetrics =>
           (swallowed <=> \E path \in PathUniverse : fs[path].kind = "recursion_error")
    /\ (HasProjectMetrics /\ ~Aborted) =>
           LET store == C23_Store
               metrics == C23_Metrics(store)
               reference == _calculate_project_metrics(store, metrics)
           IN /\ Range(dependencies) = Range(store)
              /\ Len(dependencies) = Len(store)
              /\ Range(project_metrics.module_metrics) = Range(metrics)
              /\ \A m \in Range(project_metrics.module_metrics) :
                     \E r \in Range(metrics) :
                         r.module_path = m.module_path /\ category(r) = category(m)
              /\ project_metrics.module_count = reference.module_count
              /\ project_metrics.total_internal_dependencies
                     = reference.total_internal_dependencies
              /\ project_metrics.max_afferent_coupling = reference.max_afferent_coupling
              /\ project_metrics.max_efferent_coupling = reference.max_efferent_coupling
              /\ Returned =>
                     /\ Range(result.problematic_modules)
                            = Range(_identify_problematic_modules(metrics, settings))
                     /\ Range(result.stable_modules)
                            = Range(_identify_stable_modules(metrics, settings))

\* a returned run that visited three files in the reverse of the fixed
\* order, the first visited importing the last
C23_Witness ==
    /\ Returned
    /\ ~Aborted
    /\ Len(dependencies) = 3
    /\ dependencies[1].module_path = Path_pkg_init
    /\ dependencies[3].module_path = Path_a
    /\ Imports(dependencies[1], Path_a)
    /\ Imports(dependencies[3], Path_b)

\* the sum of Ce over the entries i.. of a list of module metrics
RECURSIVE C24_SumCe(_, _)
C24_SumCe(metrics, i) ==
    IF i > Len(metrics) THEN 0
    ELSE metrics[i].efferent_coupling + C24_SumCe(metrics, i + 1)

\* x is the largest of the values f(m) over a list, 0 for the empty list
C24_IsMax(x, metrics, f(_)) ==
    IF Len(metrics) = 0 THEN x = 0
    ELSE /\ \E i \in 1..Len(metrics) : f(metrics[i]) = x
         /\ \A i \in 1..Len(metrics) : f(metrics[i]) <= x

C24_Ca(m) == m.afferent_coupling
C24_Ce(m) == m.efferent_coupling

C25_Calculating == pc \in {"calculate", "aggregate", "classify"} /\ ~Aborted

\* C25: join barrier: no module's Ca is computed until the extraction of
\* every enumerated file has finished, and from the first Ca computation
\* until the run returns the store is never modified.
C25_JoinBarrier ==
    /\ [](((pc = "calculate") \/ (coupling_metrics # <<>>)) => python_files = {})
    /\ [][C25_Calculating => dependencies' = dependencies]_vars

\* the calculation is under way: the second of three modules is next
C25_Witness ==
    /\ pc = "calculate"
    /\ calc_index = 2
    /\ Len(dependencies) = 3
    /\ Len(coupling_metrics) = 1

\* C27: every module metric produced by analyze_project has abstractness 0,
\* so its category is "stable" or "useless", its distance from the main
\* sequence is 1 - I, and every module with I < 0.5, every member of the
\* stable list included, has distance > 0.5 and is in the problematic list.
C27_AbstractnessZero ==
    (HasProjectMetrics /\ ~Aborted) =>
        /\ \A i \in 1..Len(project_metrics.module_metrics) :
               LET m == project_metrics.module_metrics[i]
                   I == m.instability
               IN /\ m.abstractness = FromInt(0)
                  /\ category(m) \in {"stable", "useless"}
                  /\ distance_from_main_sequence(m) = Rat(I[2] - I[1], I[2])
                  /\ RLt(I, Half) => RGt(distance_from_main_sequence(m), Half)
                  /\ (Returned /\ RLt(I, Half)) => InSeq(m, result.problematic_modules)
        /\ Returned =>
               \A k \in 1..Len(result.stable_modules) :
                   /\ RLt(result.stable_modules[k].instability, Half)
                   /\ InSeq(result.stable_modules[k], result.problematic_modules)

\* a returned run with a module of the stable list, whose distance is 1,
\* and a module with I = 1, whose category is "useless" and distance 0
C27_Witness ==
    /\ Returned
    /\ ~Aborted
    /\ \E k \in 1..Len(result.stable_modules) :
           distance_from_main_sequence(result.stable_modules[k]) = FromInt(1)
    /\ \E i \in 1..Len(project_metrics.module_metrics) :
           LET m == project_metrics.module_metrics[i]
           IN /\ m.instability = FromInt(1)
              /\ category(m) = "useless"
              /\ distance_from_main_sequence(m) = FromInt(0)

-----------------------------------------------------------------------------
(* Direct calls of the match predicate, as _calculate_afferent_coupling     *)
(* makes them: both arguments normalized by the caller (specification       *)
(* SpecMatch).  The import names are dotted names and the module paths      *)
(* are relative paths of .py files, of up to MaxSegs segments.              *)

MaxSegs == 3

MatchIdents == {<<"a">>, <<"b">>, <<"py">>}

RECURSIVE SegLists(_, _)
SegLists(ids, n) ==
    IF n = 0 THEN {<<>>}
    ELSE LET shorter == SegLists(ids, n - 1)
         IN shorter \cup {l \o <<id>> : l \in {x \in shorter : Len(x) = n - 1}, id \in ids}

ImportNames == {Join(l, Dot) : l \in SegLists(MatchIdents, MaxSegs) \ {<<>>}}

ModulePaths ==
    {Join(l, Slash) \o DotPy :
        l \in SegLists(MatchIdents \cup {<<"__init__">>}, MaxSegs) \ {<<>>}}

InitMatch ==
    /\ project_path = "directory"
    /\ swallowed = FALSE
    /\ raised = None
    /\ fs = [path \in PathUniverse |-> NoFile]
    /\ pc = "match"
    /\ python_files = {}
    /\ dependencies = <<>>
    /\ coupling_metrics = <<>>
    /\ calc_index = 0
    /\ project_metrics = None
    /\ settings = DefaultSettings
    /\ result = None
    /\ call \in [imported : ImportNames, target : ModulePaths]
    /\ ret = None
    /\ listing = <<>>
    /\ previous = <<>>

\* the test of the inner loop of _calculate_afferent_coupling
MatchCall ==
    /\ pc = "match"
    /\ ret' = _is_module_match(_normalize_module_path(call.imported),
                               _normalize_module_path(call.target))
    /\ pc' = "match_done"
    /\ UNCHANGED <<listing, previous>>
    /\ UNCHANGED <<fs, python_files, dependencies, coupling_metrics, calc_index,
                   project_metrics, settings, result, call, project_path, swallowed, raised>>

SpecMatch == InitMatch /\ [][MatchCall]_vars

\* C5: for normalized X and M the match predicate is true if and only if
\* X = M, or X is a dotted prefix of M, or M is a dotted prefix of X, or X
\* with its first dotted segment removed equals M.
C5_MatchPredicate ==
    pc = "match_done" =>
        LET X == _normalize_module_path(call.imported)
            M == _normalize_module_path(call.target)
            segments == Split(X, ".")
        IN ret <=> \/ X = M
                   \/ StartsWith(M, X \o Dot)
                   \/ StartsWith(X, M \o Dot)
                   \/ Len(segments) >= 2 /\ Join(Tail(segments), Dot) = M

\* the match predicate on identifiers that are taken as they are, without
\* the normalization at the head of _is_module_match
C29_MatchAsGiven(imported_module, target_module) ==
    LET imported_parts == Split(imported_module, ".")
        target_parts ==
            Split(Replace(Replace(target_module, Slash, Dot), DotPy, <<>>), ".")
    IN \/ imported_module = target_module
       \/ StartsWith(target_module, imported_module \o Dot)
       \/ StartsWith(imported_module, target_module \o Dot)
       \/ /\ Len(imported_parts) >= 2 /\ Len(target_parts) >= 1
          /\ Join(Tail(imported_parts), Dot) = Join(target_parts, Dot)

\* C29: normalization is idempotent: normalizing a normalized module path
\* or import name gives it back, so the second normalization, inside the
\* match predicate, never changes a match result.
C29_NormalizeIdempotent ==
    pc = "match_done" =>
        LET X == _normalize_module_path(call.imported)
            M == _normalize_module_path(call.target)
        IN /\ _normalize_module_path(X) = X
           /\ _normalize_module_path(M) = M
           /\ ret = C29_MatchAsGiven(X, M)

-----------------------------------------------------------------------------
(* The classification stage on module lists given directly, as the unit     *)
(* tests of the service give them (specification SpecClassify): up to       *)
(* MaxModules CouplingMetrics with chosen field values, under the default   *)
(* settings or under settings with every threshold changed.  CouplingMetrics *)
(* does not validate its float fields, so a caller can also pass an         *)
(* abstractness outside [0,1].                                              *)

MaxModules == 2

\* field values with an abstractness outside [0,1]
OutOfRangeMetrics ==
    {[afferent_coupling |-> 1, efferent_coupling |-> 2, instability |-> FromInt(0),
      abstractness |-> FromInt(2), lines_of_code |-> 100],
     [afferent_coupling |-> 1, efferent_coupling |-> 2, instability |-> Half,
      abstractness |-> FromInt(-1), lines_of_code |-> 100]}

MetricUniverse ==
    [afferent_coupling : {1, 6},
     efferent_coupling : {2, 4, 9},
     instability : {FromInt(0), Half, Rat(9, 10)},
     abstractness : {FromInt(0), Half},
     lines_of_code : {100, 250}]
    \cup OutOfRangeMetrics

ModuleLists == UNION {[1..n -> MetricUniverse] : n \in 0..MaxModules}

\* the i-th module of a list is named m<i>.py
WithPaths(ms) ==
    [i \in 1..Len(ms) |-> [module_path |-> <<"m", ToString(i), ".", "py">>] @@ ms[i]]

OtherSettings ==
    [DefaultSettings EXCEPT !.instability_threshold_high = Rat(9, 10),
                            !.instability_threshold_low = Rat(1, 10),
                            !.coupling_threshold_high = 3,
                            !.lines_threshold_large = 300]

\* a ProjectCouplingMetrics around a module list
ProjectMetricsOf(ms) ==
    IF Len(ms) = 0 THEN EmptyProjectMetrics
    ELSE [module_count |-> Len(ms),
          total_internal_dependencies |->
              SumInt([i \in 1..Len(ms) |-> ms[i].efferent_coupling]),
          average_instability |->
              LET total == SumRat([i \in 1..Len(ms) |-> ms[i].instability])
              IN Rat(total[1], total[2] * Len(ms)),
          max_afferent_coupling |-> MaxOf([i \in 1..Len(ms) |-> ms[i].afferent_coupling]),
          max_efferent_coupling |-> MaxOf([i \in 1..Len(ms) |-> ms[i].efferent_coupling]),
          module_metrics |-> ms]

InitClassify ==
    /\ project_path = "directory"
    /\ swallowed = FALSE
    /\ raised = None
    /\ fs = [path \in PathUniverse |-> NoFile]
    /\ pc = "classify"
    /\ python_files = {}
    /\ dependencies = <<>>
    /\ coupling_metrics = <<>>
    /\ calc_index = 0
    /\ project_metrics \in {ProjectMetricsOf(WithPaths(ms)) : ms \in ModuleLists}
    /\ settings \in {DefaultSettings, OtherSettings}
    /\ result = None
    /\ call = None
    /\ ret = None
    /\ listing = <<>>
    /\ previous = <<>>

SpecClassify == InitClassify /\ [][Classify]_vars

\* the four conditions of C10, read off the module and the settings
C10_Condition(m) ==
    \/ RGt(m.instability, settings.instability_threshold_high)
    \/ m.afferent_coupling > settings.coupling_threshold_high
    \/ m.efferent_coupling > settings.coupling_threshold_high
    \/ m.lines_of_code > settings.lines_threshold_large /\ m.efferent_coupling > 3
    \/ RGt(RAbs(RAdd(RAdd(m.abstractness, m.instability), FromInt(-1))), Half)

\* C10: a module is in the problematic set if and only if its instability is
\* above the high threshold, or Ca or Ce is above the coupling threshold, or
\* it is a large file with Ce > 3, or its distance from the main sequence is
\* above 0.5; the list keeps the input order and holds each such module once.
C10_ProblematicIff ==
    (Returned /\ project_metrics.module_count > 0) =>
        LET modules == project_metrics.module_metrics
            problematic == result.problematic_modules
        IN /\ \A i \in 1..Len(modules) :
                  InSeq(modules[i], problematic) <=> C10_Condition(modules[i])
           /\ \A j, k \in 1..Len(problematic) :
                  j < k =>
                      \E a, b \in 1..Len(modules) :
                          /\ a < b
                          /\ modules[a] = problematic[j]
                          /\ modules[b] = problematic[k]

\* a list whose first module meets only the
\* size condition and whose second meets none
C10_Witness ==
    /\ Returned
    /\ Len(project_metrics.module_metrics) = 2
    /\ LET m1 == project_metrics.module_metrics[1]
           m2 == project_metrics.module_metrics[2]
       IN /\ m1.lines_of_code > settings.lines_threshold_large
          /\ m1.efferent_coupling > 3
          /\ ~RGt(m1.instability, settings.instability_threshold_high)
          /\ m1.afferent_coupling <= settings.coupling_threshold_high
          /\ m1.efferent_coupling <= settings.coupling_threshold_high
          /\ ~RGt(distance_from_main_sequence(m1), Half)
          /\ ~C10_Condition(m2)
          /\ result.problematic_modules = <<m1>>

\* the three conditions of C11, read off the module and the settings
C11_Condition(m) ==
    /\ m.instability[1] * settings.instability_threshold_low[2]
           < settings.instability_threshold_low[1] * m.instability[2]
    /\ m.afferent_coupling >= 2
    /\ m.efferent_coupling <= 3

\* C11: a module is in the stable-module set if and only if its instability
\* is below the low threshold, its Ca is at least 2 and its Ce is at most 3.
C11_StableIff ==
    (Returned /\ project_metrics.module_count > 0) =>
        \A i \in 1..Len(project_metrics.module_metrics) :
            InSeq(project_metrics.module_metrics[i], result.stable_modules)
                <=> C11_Condition(project_metrics.module_metrics[i])

\* a list whose first module meets the three conditions and whose second
\* fails the one on Ca only
C11_Witness ==
    /\ Returned
    /\ Len(project_metrics.module_metrics) = 2
    /\ LET m1 == project_metrics.module_metrics[1]
           m2 == project_metrics.module_metrics[2]
       IN /\ C11_Condition(m1)
          /\ RLt(m2.instability, settings.instability_threshold_low)
          /\ m2.efferent_coupling <= 3
          /\ m2.afferent_coupling < 2
          /\ result.stable_modules = <<m1>>

\* x > y for floats given as fractions with positive denominators
C13_Above(x, y) == x[1] * y[2] > y[1] * x[2]

\* |A + I - 1| > 0.5
C13_FarFromMainSequence(m) ==
    LET n == m.abstractness[1] * m.instability[2]
                 + m.instability[1] * m.abstractness[2]
                 - m.abstractness[2] * m.instability[2]
        d == m.abstractness[2] * m.instability[2]
    IN 2 * n > d \/ 2 * n < -d

C13_Painful(m) == ~C13_Above(m.instability, <<1, 2>>) /\ m.instability # <<1, 2>>
                  /\ (C13_Above(m.abstractness, <<1, 2>>) \/ m.abstractness = <<1, 2>>)

C13_Useless(m) == (C13_Above(m.instability, <<1, 2>>) \/ m.instability = <<1, 2>>)
                  /\ ~C13_Above(m.abstractness, <<1, 2>>) /\ m.abstractness # <<1, 2>>

\* the <<priority, category>> of the first rule of C13 that matches, or <<>>
C13_FirstRule(m) ==
    IF C13_Above(m.instability, settings.instability_threshold_high)
    THEN IF m.efferent_coupling > settings.coupling_threshold_high
         THEN <<"high", "coupling">> ELSE <<"medium", "instability">>
    ELSE IF m.efferent_coupling > settings.coupling_threshold_high
    THEN IF m.efferent_coupling > 8
         THEN <<"high", "coupling">> ELSE <<"medium", "coupling">>
    ELSE IF m.lines_of_code > settings.lines_threshold_large /\ m.efferent_coupling > 3
    THEN <<"medium", "size">>
    ELSE IF C13_FarFromMainSequence(m) /\ (C13_Painful(m) \/ C13_Useless(m))
    THEN IF C13_Painful(m)
         THEN <<"medium", "dependency">> ELSE <<"low", "dependency">>
    ELSE <<>>

\* C13: each module gets at most one recommendation, with the priority and
\* the category of the first matching rule among (1) I above the high
\* threshold, (2) Ce above the coupling threshold, (3) large file with
\* Ce > 3, (4) distance above 0.5 in the painful or useless category; a
\* module matching no rule gets none.  With the defaults Ce = 9, Ca = 1,
\* I = 0.9 gives priority high, category coupling.
C13_FirstMatchingRule ==
    (Returned /\ project_metrics.module_count > 0) =>
        \A i \in 1..Len(project_metrics.module_metrics) :
            LET m == project_metrics.module_metrics[i]
                own == {k \in 1..Len(result.recommendations) :
                           result.recommendations[k].module_path = m.module_path}
                rule == C13_FirstRule(m)
            IN /\ Cardinality(own) <= 1
               /\ (own = {}) <=> (rule = <<>>)
               /\ \A k \in own :
                      /\ result.recommendations[k].priority = rule[1]
                      /\ result.recommendations[k].category = rule[2]
               /\ ( /\ settings = DefaultSettings
                    /\ m.efferent_coupling = 9
                    /\ m.afferent_coupling = 1
                    /\ m.instability = <<9, 10>> )
                   => \E k \in own :
                          /\ result.recommendations[k].priority = "high"
                          /\ result.recommendations[k].category = "coupling"

\* under the defaults: the module of the example, with its recommendation,
\* beside a module that only the distance rule matches
C13_Witness ==
    /\ Returned
    /\ settings = DefaultSettings
    /\ Len(project_metrics.module_metrics) = 2
    /\ Len(result.recommendations) = 2
    /\ LET m1 == project_metrics.module_metrics[1]
           m2 == project_metrics.module_metrics[2]
       IN /\ m1.efferent_coupling = 9 /\ m1.afferent_coupling = 1
          /\ m1.instability = <<9, 10>>
          /\ result.recommendations[1].module_path = m1.module_path
          /\ C13_FarFromMainSequence(m2) /\ C13_Useless(m2)
          /\ result.recommendations[2].module_path = m2.module_path
          /\ result.recommendations[2].category = "dependency"
          /\ result.recommendations[2].priority = "low"

\* I and A of the module are in [0, 1]
C26_InRange(m) ==
    /\ m.instability[1] >= 0 /\ m.instability[1] <= m.instability[2]
    /\ m.abstractness[1] >= 0 /\ m.abstractness[1] <= m.abstractness[2]

\* C26: for every module metric with I and A in [0, 1] the condition of
\* recommendation rule 4 (distance above 0.5 and category painful or
\* useless) is false, so the module gets no recommendation of category
\* "dependency" and none of priority "low", whatever the settings.
C26_DistanceRuleNeverFires ==
    (Returned /\ project_metrics.module_count > 0) =>
        \A i \in 1..Len(project_metrics.module_metrics) :
            LET m == project_metrics.module_metrics[i]
            IN C26_InRange(m) =>
                  /\ ~(C13_FarFromMainSequence(m) /\ (C13_Painful(m) \/ C13_Useless(m)))
                  /\ ~( /\ RGt(distance_from_main_sequence(m), Half)
                        /\ category(m) \in {"painful", "useless"} )
                  /\ \A k \in 1..Len(result.recommendations) :
                         result.recommendations[k].module_path = m.module_path
                             => /\ result.recommendations[k].category # "dependency"
                                /\ result.recommendations[k].priority # "low"

\* a painful module and a useless module with I and A in [0, 1], each at
\* distance 0.5 exactly and matched by no earlier rule, get no
\* recommendation
C26_Witness ==
    /\ Returned
    /\ Len(project_metrics.module_metrics) = 2
    /\ result.recommendations = <<>>
    /\ LET m1 == project_metrics.module_metrics[1]
           m2 == project_metrics.module_metrics[2]
       IN /\ C26_InRange(m1) /\ C26_InRange(m2)
          /\ category(m1) = "painful" /\ category(m2) = "useless"
          /\ distance_from_main_sequence(m1) = Half
          /\ distance_from_main_sequence(m2) = Half

\* the module paths of a list of module metrics or of recommendations
C28_Paths(list) == {list[i].module_path : i \in 1..Len(list)}

\* C28: for any module list and any settings, every module that receives a
\* recommendation is in the problematic list computed with the same
\* settings.
C28_RecommendedAreProblematic ==
    (Returned /\ project_metrics.module_count > 0) =>
        C28_Paths(result.recommendations) \subseteq C28_Paths(result.problematic_modules)

\* two modules, both problematic, of which only one gets a recommendation:
\* the converse does not hold
C28_Witness ==
    /\ Returned
    /\ Len(project_metrics.module_metrics) = 2
    /\ Len(result.problematic_modules) = 2
    /\ Len(result.recommendations) = 1
    /\ result.recommendations[1].category = "size"

C14_Rank(rec) ==
    IF rec.priority = "high" THEN 1 ELSE IF rec.priority = "medium" THEN 2 ELSE 3

\* the place of the recommendation's module in the list that was evaluated
C14_Evaluated(rec) ==
    CHOOSE i \in 1..Len(project_metrics.module_metrics) :
        project_metrics.module_metrics[i].module_path = rec.module_path

\* C14: the returned recommendations are ordered by priority, all high
\* before all medium before all low, and recommendations of equal priority
\* keep the order in which their modules were evaluated.
C14_OrderedByPriority ==
    (Returned /\ project_metrics.module_count > 0) =>
        \A j, k \in 1..Len(result.recommendations) :
            j < k =>
                LET rj == result.recommendations[j]
                    rk == result.recommendations[k]
                IN /\ rj.priority \in {"high", "medium", "low"}
                   /\ C14_Rank(rj) <= C14_Rank(rk)
                   /\ C14_Rank(rj) = C14_Rank(rk)
                          => C14_Evaluated(rj) < C14_Evaluated(rk)

\* the module evaluated first has the lower priority and comes second
C14_Witness ==
    /\ Returned
    /\ Len(project_metrics.module_metrics) = 2
    /\ Len(result.recommendations) = 2
    /\ result.recommendations[1].module_path
           = project_metrics.module_metrics[2].module_path
    /\ result.recommendations[1].priority = "high"
    /\ result.recommendations[2].priority = "low"

\* x < 0.5 for a float given as a fraction with positive denominator
C16_BelowHalf(x) == 2 * x[1] < x[2]

\* the categories whose condition in C16 the pair (I, A) of m meets
C16_Categories(m) ==
    {c \in {"stable", "unstable", "painful", "useless"} :
        \/ c = "stable" /\ C16_BelowHalf(m.instability) /\ C16_BelowHalf(m.abstractness)
        \/ c = "unstable" /\ ~C16_BelowHalf(m.instability)
                          /\ ~C16_BelowHalf(m.abstractness)
        \/ c = "painful" /\ C16_BelowHalf(m.instability)
                         /\ ~C16_BelowHalf(m.abstractness)
        \/ c = "useless" /\ ~C16_BelowHalf(m.instability)
                         /\ C16_BelowHalf(m.abstractness)}

\* C16: the category of a module metric is a total and exclusive function of
\* (I, A): stable for I < 0.5 and A < 0.5, unstable for I >= 0.5 and
\* A >= 0.5, painful for I < 0.5 and A >= 0.5, useless for I >= 0.5 and
\* A < 0.5; every (I, A) gets exactly one of the four.  Read off the
\* category distribution of the summary, which counts each module under the
\* category computed for it.
C16_CategoryTotalExclusive ==
    (Returned /\ project_metrics.module_count > 0) =>
        LET modules == project_metrics.module_metrics
            distribution == result.analysis_summary.category_distribution
        IN /\ DOMAIN distribution \subseteq {"stable", "unstable", "painful", "useless"}
           /\ \A i \in 1..Len(modules) : Cardinality(C16_Categories(modules[i])) = 1
           /\ \A c \in {"stable", "unstable", "painful", "useless"} :
                  LET expected == Cardinality({i \in 1..Len(modules) :
                                                 c \in C16_Categories(modules[i])})
                  IN IF expected = 0 THEN c \notin DOMAIN distribution
                     ELSE c \in DOMAIN distribution /\ distribution[c] = expected

\* a module on both boundaries (I = A = 0.5, unstable) beside a module with
\* I = 0.5 and A = 0 (useless)
C16_Witness ==
    /\ Returned
    /\ Len(project_metrics.module_metrics) = 2
    /\ project_metrics.module_metrics[1].instability = <<1, 2>>
    /\ project_metrics.module_metrics[1].abstractness = <<1, 2>>
    /\ project_metrics.module_metrics[2].instability = <<1, 2>>
    /\ project_metrics.module_metrics[2].abstractness = <<0, 1>>
    /\ DOMAIN result.analysis_summary.category_distribution = {"unstable", "useless"}

-----------------------------------------------------------------------------
(* The classification stage on longer module lists (specification           *)
(* SpecHealth): up to MaxHealthModules modules, each of one of four kinds,  *)
(* under the default settings.  The health label depends on the list only   *)
(* through the number of modules of each kind.                              *)

MaxHealthModules == 10

\* problematic (distance 1) and not stable (Ca < 2)
HealthProblematicOnly ==
    [afferent_coupling |-> 1, efferent_coupling |-> 0, instability |-> FromInt(0),
     abstractness |-> FromInt(0), lines_of_code |-> 100]

\* stable and not problematic (distance 0.5)
HealthStableOnly ==
    [afferent_coupling |-> 2, efferent_coupling |-> 0, instability |-> FromInt(0),
     abstractness |-> Half, lines_of_code |-> 100]

\* stable and problematic
HealthBoth ==
    [afferent_coupling |-> 2, efferent_coupling |-> 0, instability |-> FromInt(0),
     abstractness |-> FromInt(0), lines_of_code |-> 100]

\* neither
HealthNeither ==
    [afferent_coupling |-> 1, efferent_coupling |-> 1, instability |-> Half,
     abstractness |-> FromInt(0), lines_of_code |-> 100]

Repeat(x, n) == [i \in 1..n |-> x]

HealthLists ==
    {Repeat(HealthProblematicOnly, p) \o Repeat(HealthStableOnly, s)
         \o Repeat(HealthBoth, b) \o Repeat(HealthNeither, n) :
       <<p, s, b, n>> \in
           {q \in (0..MaxHealthModules) \X (0..MaxHealthModules)
                      \X (0..MaxHealthModules) \X (0..MaxHealthModules) :
               q[1] + q[2] + q[3] + q[4] <= MaxHealthModules}}

InitHealth ==
    /\ project_path = "directory"
    /\ swallowed = FALSE
    /\ raised = None
    /\ fs = [path \in PathUniverse |-> NoFile]
    /\ pc = "classify"
    /\ python_files = {}
    /\ dependencies = <<>>
    /\ coupling_metrics = <<>>
    /\ calc_index = 0
    /\ project_metrics \in {ProjectMetricsOf(WithPaths(ms)) : ms \in HealthLists}
    /\ settings = DefaultSettings
    /\ result = None
    /\ call = None
    /\ ret = None
    /\ listing = <<>>
    /\ previous = <<>>

SpecHealth == InitHealth /\ [][Classify]_vars

\* C15: the health label is "unknown" when module_count = 0 (with empty
\* problematic, stable and recommendation lists and dependency_density 0);
\* otherwise "poor" when problematic_count / module_count > 0.3, else "fair"
\* when that ratio > 0.1, else "good" when stable_count / module_count > 0.2,
\* else "excellent".
C15_HealthLabel ==
    Returned =>
        LET module_count == result.project_metrics.module_count
            problematic_count == Len(result.problematic_modules)
            stable_count == Len(result.stable_modules)
            overall_health == result.analysis_summary.overall_health
        IN IF module_count = 0
           THEN /\ overall_health = "unknown"
                /\ result.problematic_modules = <<>>
                /\ result.stable_modules = <<>>
                /\ result.recommendations = <<>>
                /\ dependency_density(result.project_metrics) = <<0, 1>>
           ELSE overall_health =
                    IF 10 * problematic_count > 3 * module_count THEN "poor"
                    ELSE IF 10 * problematic_count > module_count THEN "fair"
                    ELSE IF 10 * stable_count > 2 * module_count THEN "good"
                    ELSE "excellent"

\* ten modules, three of them problematic: the ratio is 0.3 and the label
\* is "fair"
C15_Witness ==
    /\ Returned
    /\ result.project_metrics.module_count = 10
    /\ Len(result.problematic_modules) = 3
    /\ result.analysis_summary.overall_health = "fair"

-----------------------------------------------------------------------------
(* Repeated analyses of one project.  The directory lists its entries in   *)
(* an order of its own, the same at every enumeration while the files are  *)
(* unchanged; the loop of _collect_all_dependencies follows it.            *)
(* Specification SpecTwice: the service is called again on the unchanged   *)
(* file set, each call constructing its own CouplingAnalyzer.              *)
(* Specification SpecReuse: analyze_project is called again on the same    *)
(* CouplingAnalyzer after a file was added, changed or removed.            *)

MaxRuns == 2

\* no file, a file without imports, "import b", "from a import f", a file
\* that cannot be read
SmallContents ==
    {NoFile,
     [kind |-> "ok", tree |-> <<>>, loc |-> 1],
     [kind |-> "ok", tree |-> <<StmtUniverse[2]>>, loc |-> 2],
     [kind |-> "ok", tree |-> <<StmtUniverse[1]>>, loc |-> 2],
     [kind |-> "unreadable", tree |-> <<>>, loc |-> 1]}

DirectoryOrders ==
    {l \in [1..Cardinality(PathUniverse) -> PathUniverse] :
        \A i, j \in DOMAIN l : l[i] = l[j] => i = j}

InitRepeat ==
    /\ project_path = "directory"
    /\ fs \in [PathUniverse -> SmallContents]
    /\ listing \in DirectoryOrders
    /\ previous = <<>>
    /\ swallowed = FALSE
    /\ raised = None
    /\ pc = "start"
    /\ python_files = {}
    /\ dependencies = <<>>
    /\ coupling_metrics = <<>>
    /\ calc_index = 0
    /\ project_metrics = None
    /\ settings = DefaultSettings
    /\ result = None
    /\ call = None
    /\ ret = None

\* the next file of the list that rglob returned
NextListed ==
    listing[CHOOSE i \in DOMAIN listing :
                /\ listing[i] \in python_files
                /\ \A j \in DOMAIN listing : listing[j] \in python_files => i <= j]

\* A mutation: the files are taken in any order.
CollectUnordered ==
    \E python_file \in python_files : CollectFile(python_file)

\* one turn of the loop of _collect_all_dependencies, in directory order
CollectListed ==
    /\ python_files # {}
    /\ CollectFile(NextListed)

\* the service is called once more
RunAgain ==
    /\ pc = "done"
    /\ Len(previous) < MaxRuns - 1
    /\ previous' = Append(previous, result)
    /\ pc' = "start"
    /\ swallowed' = FALSE
    /\ raised' = None
    /\ UNCHANGED <<fs, python_files, dependencies, coupling_metrics, calc_index,
                   project_metrics, settings, result, call, ret, project_path,
                   listing>>

NextTwice ==
    \/ Begin
    \/ CollectListed
    \/ CalculateModule
    \/ Aggregate
    \/ Classify
    \/ RunAgain

SpecTwice == InitRepeat /\ [][NextTwice]_vars

ChangeFile(path, content) ==
    /\ pc = "classify"
    /\ fs[path] # content
    /\ fs' = [fs EXCEPT ![path] = content]
    /\ pc' = "idle"
    /\ UNCHANGED <<python_files, dependencies, coupling_metrics, calc_index,
                   project_metrics, settings, result, call, ret, project_path,
                   swallowed, raised, listing, previous>>

\* analyze_project is called again on the same CouplingAnalyzer
AnalyzeAgain ==
    /\ pc = "idle"
    /\ python_files' = _find_python_files(fs, settings.exclude_patterns)
    /\ pc' = IF python_files' = {} THEN AfterCollect(dependencies) ELSE "collect"
    /\ calc_index' = 1
    /\ UNCHANGED <<fs, dependencies, coupling_metrics, project_metrics, settings,
                   result, call, ret, project_path, swallowed, raised, listing,
                   previous>>

NextReuse ==
    \/ Begin
    \/ CollectListed
    \/ CalculateModule
    \/ Aggregate
    \/ \E path \in PathUniverse, content \in SmallContents : ChangeFile(path, content)
    \/ AnalyzeAgain

\* the directory lists its entries by name
InitReuse == InitRepeat /\ listing = <<Path_a, Path_b, Path_pkg_init>>

SpecReuse == InitReuse /\ [][NextReuse]_vars

\* C30: after any sequence of analyze_project calls on one CouplingAnalyzer,
\* with files added, changed or removed between the calls, the returned
\* ProjectMetric is the one of a new CouplingAnalyzer on the current files:
\* no module whose file no longer exists is reported, and the modules and
\* the counts are those of the current files.
C30_ReuseAsFresh ==
    pc = "classify" =>
        LET store == C23_Store
            metrics == C23_Metrics(store)
            fresh == _calculate_project_metrics(store, metrics)
        IN /\ \A i \in 1..Len(project_metrics.module_metrics) :
                  Exists(fs, project_metrics.module_metrics[i].module_path)
           /\ Range(project_metrics.module_metrics) = Range(metrics)
           /\ project_metrics.module_count = fresh.module_count
           /\ project_metrics.total_internal_dependencies
                  = fresh.total_internal_dependencies
           /\ project_metrics.max_afferent_coupling = fresh.max_afferent_coupling
           /\ project_metrics.max_efferent_coupling = fresh.max_efferent_coupling

=============================================================================
